---------------------------- MODULE Spec2Model ----------------------------
(***************************************************************************)
(* ccsw: a CLI that stores a GLM API key in ~/.ccsw/config.json and        *)
(* toggles the GLM and the AWS Bedrock provider settings inside            *)
(* <cwd>/.claude/settings.json, adding the settings path to .gitignore.    *)
(*                                                                         *)
(* The state is the part of the file system the five commands touch, plus  *)
(* a record of the last two commands that ran.  One action per command     *)
(* run alone, and one per await of two commands run at once.               *)
(* (src/index.js), each covering the whole handler.  The fs-extra calls    *)
(* (ensureDir, pathExists, readJson, writeJson, readFile, appendFile,      *)
(* remove) succeed: I/O failures are outside the model.  A settings file   *)
(* is absent, not valid JSON, or a JSON object whose env field, when       *)
(* present, is a mapping from strings to strings.                          *)
(***************************************************************************)
EXTENDS Integers, Sequences, FiniteSets

VARIABLES
    config,     \* ~/.ccsw and ~/.ccsw/config.json
    claudeDir,  \* whether <cwd>/.claude exists
    settings,   \* <cwd>/.claude/settings.json
    gitignore,  \* <cwd>/.gitignore
    last,       \* the command that ran last: what, with which arguments, how it ended, the settings file before it
    prev,       \* the command that ran before last
    procs       \* two ccsw processes running at once: where each one is and what it has read

vars == <<config, claudeDir, settings, gitignore, last, prev, procs>>

---------------------------------------------------------------------------
(* Bounds of the model *)

\* The most env keys a settings file holds before the first command.
MaxInitEnv == 2

\* The most chunks of text .gitignore holds before the first command.
MaxChunks == 3

---------------------------------------------------------------------------
(* Values *)

\* A JavaScript value that may be undefined: <<>> is undefined, <<s>> the string s.
Undefined == <<>>

Some(s) == <<s>>

\* !v for a string or undefined: undefined and "" are falsy.
Falsy(v) == v = Undefined \/ v[1] = ""

\* v || d
OrDefault(v, d) == IF Falsy(v) THEN d ELSE v[1]

\* {}
EmptyMap == [k \in {} |-> ""]

\* A JSON object: the fields other than env (top), and env when present.
EmptyObject == [top |-> EmptyMap, hasEnv |-> FALSE, env |-> EmptyMap]

\* The emptiness test gone wrong: only env is looked at.
IsEmptyObjectEnvOnly(obj) == ~obj.hasEnv

\* Object.keys(settings).length === 0
IsEmptyObject(obj) == DOMAIN obj.top = {} /\ ~obj.hasEnv

\* Object.assign gone wrong: a key the target already has keeps its value.
ObjectAssignKeepOld(target, source) ==
    [k \in DOMAIN target \cup DOMAIN source |->
        IF k \in DOMAIN target THEN target[k] ELSE source[k]]

\* Object.assign gone wrong: a value is appended to the one already there.
ObjectAssignAppend(target, source) ==
    [k \in DOMAIN target \cup DOMAIN source |->
        IF k \in DOMAIN source
        THEN (IF k \in DOMAIN target THEN target[k] \o source[k] ELSE source[k])
        ELSE target[k]]

\* Object.assign(target, source)
ObjectAssign(target, source) ==
    [k \in DOMAIN target \cup DOMAIN source |->
        IF k \in DOMAIN source THEN source[k] ELSE target[k]]

\* keys.forEach(key => delete map[key])
DeleteKeys(map, keys) == [k \in DOMAIN map \ keys |-> map[k]]

---------------------------------------------------------------------------
(* Files *)

AbsentFile == [exists |-> FALSE, valid |-> FALSE, obj |-> EmptyObject]

MalformedFile == [exists |-> TRUE, valid |-> FALSE, obj |-> EmptyObject]

\* fs.writeJson(settingsFile, settings, { spaces: 2 })
JsonFile(obj) == [exists |-> TRUE, valid |-> TRUE, obj |-> obj]

\* ensureConfig: creates ~/.ccsw and an empty config.json when missing
EnsureConfig(c) ==
    IF c.exists THEN c ELSE [dir |-> TRUE, exists |-> TRUE, glmApiKey |-> Undefined]

\* The store gone wrong: a key already stored is kept.
StoreKeyOnce(c, key) ==
    IF EnsureConfig(c).glmApiKey = Undefined
    THEN [EnsureConfig(c) EXCEPT !.glmApiKey = Some(key)]
    ELSE c

\* saveConfig after config.glmApiKey = key
StoreKey(c, key) == [EnsureConfig(c) EXCEPT !.glmApiKey = Some(key)]

NoConfig == [dir |-> FALSE, exists |-> FALSE, glmApiKey |-> Undefined]

---------------------------------------------------------------------------
(* Provider profiles *)

\* glm-on's newSettings, with the stored key as the auth token
GlmNewSettings(apiKey) ==
    [ANTHROPIC_BASE_URL |-> "https://api.z.ai/api/anthropic",
     ANTHROPIC_AUTH_TOKEN |-> apiKey,
     API_TIMEOUT_MS |-> "3000000",
     ANTHROPIC_DEFAULT_SONNET_MODEL |-> "glm-4.7",
     ANTHROPIC_DEFAULT_OPUS_MODEL |-> "glm-4.7",
     ANTHROPIC_DEFAULT_HAIKU_MODEL |-> "glm-4.5-air",
     IS_DEMO |-> "true"]

\* keysToRemove gone wrong: the list of the variant without IS_DEMO.
GlmKeysToRemoveNoDemo ==
    {"ANTHROPIC_BASE_URL", "ANTHROPIC_AUTH_TOKEN", "API_TIMEOUT_MS",
     "ANTHROPIC_DEFAULT_SONNET_MODEL", "ANTHROPIC_DEFAULT_OPUS_MODEL",
     "ANTHROPIC_DEFAULT_HAIKU_MODEL"}

\* glm-off's keysToRemove
GlmKeysToRemove ==
    {"ANTHROPIC_BASE_URL", "ANTHROPIC_AUTH_TOKEN", "API_TIMEOUT_MS",
     "ANTHROPIC_DEFAULT_SONNET_MODEL", "ANTHROPIC_DEFAULT_OPUS_MODEL",
     "ANTHROPIC_DEFAULT_HAIKU_MODEL", "IS_DEMO"}

\* newSettings gone wrong: the two options are taken for each other.
BedrockNewSettingsSwapped(options) ==
    [CLAUDE_CODE_USE_BEDROCK |-> "1",
     AWS_PROFILE |-> OrDefault(options.region, "sjmbrprofile"),
     AWS_REGION |-> OrDefault(options.profile, "eu-west-1"),
     IS_DEMO |-> "true"]

\* bedrock-on's newSettings, from the --profile and --region options
BedrockNewSettings(options) ==
    [CLAUDE_CODE_USE_BEDROCK |-> "1",
     AWS_PROFILE |-> OrDefault(options.profile, "sjmbrprofile"),
     AWS_REGION |-> OrDefault(options.region, "eu-west-1"),
     IS_DEMO |-> "true"]

\* the value bedrock-on gives settings.model
BedrockModel == "eu.anthropic.claude-opus-4-5-20251101-v1:0"

\* bedrock-off's keysToRemove
BedrockKeysToRemove ==
    {"CLAUDE_CODE_USE_BEDROCK", "AWS_PROFILE", "AWS_REGION", "IS_DEMO"}

---------------------------------------------------------------------------
(* The settings merger *)

\* The lenient load of the activations: {} when the file is missing or
\* readJson throws.
LoadLenient(file) == IF file.exists /\ file.valid THEN file.obj ELSE EmptyObject

\* if (!settings.env) settings.env = {}
EnsureEnv(obj) ==
    IF obj.hasEnv THEN obj ELSE [obj EXCEPT !.hasEnv = TRUE, !.env = EmptyMap]

\* glm-on, from the loaded object to the object it writes
GlmActivate(obj, apiKey) ==
    LET s == EnsureEnv(obj)
    IN  [s EXCEPT !.env = ObjectAssign(s.env, GlmNewSettings(apiKey))]

\* bedrock-on, from the loaded object to the object it writes
BedrockActivate(obj, options) ==
    LET s == EnsureEnv(obj)
    IN  [s EXCEPT !.env = ObjectAssign(s.env, BedrockNewSettings(options)),
                  !.top = ObjectAssign(s.top, [model |-> BedrockModel])]

\* The removal gone wrong: an env left empty stays in the object.
RemoveEnvKeysKeepEmpty(obj, keys) ==
    IF obj.hasEnv THEN [obj EXCEPT !.env = DeleteKeys(obj.env, keys)] ELSE obj

\* if (settings.env) { delete the keys; delete an env left empty }
RemoveEnvKeys(obj, keys) ==
    IF obj.hasEnv
    THEN LET e == DeleteKeys(obj.env, keys)
         IN  IF DOMAIN e = {}
             THEN [obj EXCEPT !.hasEnv = FALSE, !.env = EmptyMap]
             ELSE [obj EXCEPT !.env = e]
    ELSE obj

\* glm-off, from the loaded object to the object it keeps
GlmDeactivate(obj) == RemoveEnvKeys(obj, GlmKeysToRemove)

\* bedrock-off gone wrong: model is left in place.
BedrockDeactivateKeepModel(obj) == RemoveEnvKeys(obj, BedrockKeysToRemove)

\* bedrock-off gone wrong: model is deleted inside the if (settings.env)
\* block.
BedrockDeactivateModelWithEnv(obj) ==
    IF obj.hasEnv
    THEN LET s == RemoveEnvKeys(obj, BedrockKeysToRemove)
         IN  [s EXCEPT !.top = DeleteKeys(s.top, {"model"})]
    ELSE obj

\* bedrock-off, from the loaded object to the object it keeps
BedrockDeactivate(obj) ==
    LET s == RemoveEnvKeys(obj, BedrockKeysToRemove)
    IN  [s EXCEPT !.top = DeleteKeys(s.top, {"model"})]

\* The end of both deactivations: remove the file when the object is empty,
\* write it otherwise.
PersistOrRemove(obj) == IF IsEmptyObject(obj) THEN AbsentFile ELSE JsonFile(obj)

---------------------------------------------------------------------------
(* The ignore file: text is a sequence of characters *)

\* gitignoreEntry
Entry ==
    <<".", "c", "l", "a", "u", "d", "e", "/",
      "s", "e", "t", "t", "i", "n", "g", "s", ".", "j", "s", "o", "n">>

Newline == <<"\n">>

\* The positions at which e occurs in s.
Positions(s, e) == {i \in 1..(Len(s) - Len(e) + 1) : SubSeq(s, i, i + Len(e) - 1) = e}

\* s.includes(e)
Includes(s, e) == Positions(s, e) # {}

\* s.endsWith('\n')
EndsWithNewline(s) == Len(s) > 0 /\ s[Len(s)] = "\n"

NoIgnoreFile == [exists |-> FALSE, content |-> <<>>]

\* The synchronization gone wrong: no separator before the entry.
IgnoreSyncNoSeparator(g) ==
    LET gitignoreContent == IF g.exists THEN g.content ELSE <<>>
    IN  IF ~Includes(gitignoreContent, Entry)
        THEN [exists |-> TRUE, content |-> g.content \o Entry \o Newline]
        ELSE g

\* The synchronization gone wrong: the entry is appended without looking
\* for it.
IgnoreSyncAlways(g) ==
    LET gitignoreContent == IF g.exists THEN g.content ELSE <<>>
        separator ==
            IF Len(gitignoreContent) > 0 /\ ~EndsWithNewline(gitignoreContent)
            THEN Newline ELSE <<>>
    IN  [exists |-> TRUE, content |-> g.content \o separator \o Entry \o Newline]

\* "Add to .gitignore", the end of both activations
IgnoreSync(g) ==
    LET gitignoreContent == IF g.exists THEN g.content ELSE <<>>
        separator ==
            IF Len(gitignoreContent) > 0 /\ ~EndsWithNewline(gitignoreContent)
            THEN Newline ELSE <<>>
    IN  IF ~Includes(gitignoreContent, Entry)
        THEN [exists |-> TRUE, content |-> g.content \o separator \o Entry \o Newline]
        ELSE g

---------------------------------------------------------------------------
(* What the commands are given *)

\* The keys set-glm-key is called with.
Keys == {"", "abc123", "zzz999"}

\* The values of --profile and of --region; Undefined when the option is not given.
ProfileOptions == {Undefined, Some(""), Some("dev")}

RegionOptions == {Undefined, Some(""), Some("us-east-1")}

NoArgs == [key |-> Undefined, profile |-> Undefined, region |-> Undefined]

\* The record of one run of a command.
Ran(cmd, args, outcome, before) ==
    [cmd |-> cmd, args |-> args, outcome |-> outcome, before |-> before]

NoCommand == Ran("none", NoArgs, "none", AbsentFile)

\* No two processes at once: the commands run one after the other.
NoProcs == [of |-> <<>>, writer |-> 0]

---------------------------------------------------------------------------
(* The project before the first command *)

\* Top-level fields of the settings file other than env.
InitTops ==
    {[k \in S |-> IF k = "model" THEN "claude-sonnet" ELSE "1"] :
        S \in SUBSET {"foo", "model"}}

\* The env keys a settings file may hold before the first command: one the
\* tool does not know, one only bedrock-on writes, and the one both
\* profiles write.
InitEnvKeys == {"bar", "AWS_PROFILE", "IS_DEMO"}

InitEnvs ==
    {[k \in S |-> "baz"] : S \in {T \in SUBSET InitEnvKeys : Cardinality(T) <= MaxInitEnv}}

InitObjects ==
    {[top |-> t, hasEnv |-> FALSE, env |-> EmptyMap] : t \in InitTops}
    \cup {[top |-> t, hasEnv |-> TRUE, env |-> e] : t \in InitTops, e \in InitEnvs}

InitSettings == {AbsentFile, MalformedFile} \cup {JsonFile(o) : o \in InitObjects}

\* The pieces .gitignore is made of before the first command.
GitChunks == {Newline, <<"x">>, SubSeq(Entry, 1, 8), SubSeq(Entry, 9, 21), Entry}

RECURSIVE GitTexts(_)
GitTexts(n) ==
    IF n = 0 THEN {<<>>}
    ELSE GitTexts(n - 1) \cup {t \o c : t \in GitTexts(n - 1), c \in GitChunks}

InitIgnores == {NoIgnoreFile} \cup {[exists |-> TRUE, content |-> t] : t \in GitTexts(MaxChunks)}

InitConfigs == {NoConfig, StoreKey(NoConfig, "abc123")}

Init ==
    /\ config \in InitConfigs
    /\ settings \in InitSettings
    /\ claudeDir \in {b \in BOOLEAN : settings.exists => b}
    /\ gitignore \in {NoIgnoreFile, [exists |-> TRUE, content |-> <<"x">>]}
    /\ last = NoCommand
    /\ prev = NoCommand
    /\ procs = NoProcs

---------------------------------------------------------------------------
(* The commands *)

\* ccsw set-glm-key <key>
SetGlmKey(key) ==
    /\ config' = StoreKey(config, key)
    /\ last' = Ran("set-glm-key", [NoArgs EXCEPT !.key = Some(key)], "ok", settings)
    /\ prev' = last
    /\ UNCHANGED procs
    /\ UNCHANGED <<claudeDir, settings, gitignore>>

\* glm-on gone wrong: the missing key is reported after the settings file
\* is written.
GlmOnCheckLate ==
    LET apiKey == EnsureConfig(config).glmApiKey
    IN  /\ config' = EnsureConfig(config)
        /\ prev' = last
        /\ UNCHANGED procs
        /\ claudeDir' = TRUE
        /\ settings' = JsonFile(GlmActivate(LoadLenient(settings), OrDefault(apiKey, "")))
        /\ IF Falsy(apiKey)
           THEN /\ last' = Ran("glm-on", NoArgs, "exit1", settings)
                /\ UNCHANGED gitignore
           ELSE /\ gitignore' = IgnoreSync(gitignore)
                /\ last' = Ran("glm-on", NoArgs, "ok", settings)

\* ccsw glm-on
GlmOn ==
    LET apiKey == EnsureConfig(config).glmApiKey
    IN  /\ config' = EnsureConfig(config)
        /\ prev' = last
        /\ UNCHANGED procs
        /\ IF Falsy(apiKey)
           THEN /\ last' = Ran("glm-on", NoArgs, "exit1", settings)
                /\ UNCHANGED <<claudeDir, settings, gitignore>>
           ELSE /\ claudeDir' = TRUE
                /\ settings' = JsonFile(GlmActivate(LoadLenient(settings), apiKey[1]))
                /\ gitignore' = IgnoreSync(gitignore)
                /\ last' = Ran("glm-on", NoArgs, "ok", settings)

\* The deactivations gone wrong: the file is read without asking whether
\* it exists, and readJson throws on a missing file.
DeactivateNoExistsCheck(cmd, result) ==
    /\ prev' = last
    /\ UNCHANGED procs
    /\ IF ~settings.exists \/ ~settings.valid
       THEN /\ last' = Ran(cmd, NoArgs, "error", settings)
            /\ UNCHANGED settings
       ELSE /\ settings' = PersistOrRemove(result)
            /\ last' = Ran(cmd, NoArgs, "ok", settings)
    /\ UNCHANGED <<config, claudeDir, gitignore>>

\* The deactivations gone wrong: a file that does not parse is taken for {},
\* as the activations take it.
DeactivateLenient(cmd, result) ==
    /\ prev' = last
    /\ UNCHANGED procs
    /\ IF ~settings.exists
       THEN /\ last' = Ran(cmd, NoArgs, "nothing", settings)
            /\ UNCHANGED settings
       ELSE /\ settings' = PersistOrRemove(IF settings.valid THEN result ELSE EmptyObject)
            /\ last' = Ran(cmd, NoArgs, "ok", settings)
    /\ UNCHANGED <<config, claudeDir, gitignore>>

\* The body of both deactivations, given what the command does to the object.
Deactivate(cmd, result) ==
    /\ prev' = last
    /\ UNCHANGED procs
    /\ IF ~settings.exists
       THEN /\ last' = Ran(cmd, NoArgs, "nothing", settings)
            /\ UNCHANGED settings
       ELSE IF ~settings.valid
       THEN /\ last' = Ran(cmd, NoArgs, "error", settings)
            /\ UNCHANGED settings
       ELSE /\ settings' = PersistOrRemove(result)
            /\ last' = Ran(cmd, NoArgs, "ok", settings)
    /\ UNCHANGED <<config, claudeDir, gitignore>>

\* ccsw glm-off
GlmOff == Deactivate("glm-off", GlmDeactivate(settings.obj))

\* bedrock-on gone wrong: a settings file that does not parse ends the
\* command, as it ends the deactivations.
BedrockOnStrict(options) ==
    /\ prev' = last
    /\ UNCHANGED procs
    /\ claudeDir' = TRUE
    /\ IF settings.exists /\ ~settings.valid
       THEN /\ last' = Ran("bedrock-on",
                           [NoArgs EXCEPT !.profile = options.profile, !.region = options.region],
                           "error", settings)
            /\ UNCHANGED <<settings, gitignore>>
       ELSE /\ settings' = JsonFile(BedrockActivate(LoadLenient(settings), options))
            /\ gitignore' = IgnoreSync(gitignore)
            /\ last' = Ran("bedrock-on",
                           [NoArgs EXCEPT !.profile = options.profile, !.region = options.region],
                           "ok", settings)
    /\ UNCHANGED config

\* ccsw bedrock-on [-p <name>] [-r <region>]
BedrockOn(options) ==
    /\ claudeDir' = TRUE
    /\ settings' = JsonFile(BedrockActivate(LoadLenient(settings), options))
    /\ gitignore' = IgnoreSync(gitignore)
    /\ last' = Ran("bedrock-on",
                   [NoArgs EXCEPT !.profile = options.profile, !.region = options.region],
                   "ok", settings)
    /\ prev' = last
    /\ UNCHANGED procs
    /\ UNCHANGED config

\* ccsw bedrock-off
BedrockOff == Deactivate("bedrock-off", BedrockDeactivate(settings.obj))

\* One run of ccsw, with the arguments drawn from the given sets.
Command(keys, profiles, regions) ==
    \/ \E key \in keys : SetGlmKey(key)
    \/ GlmOn
    \/ GlmOff
    \/ \E p \in profiles, r \in regions : BedrockOn([profile |-> p, region |-> r])
    \/ BedrockOff

Next == Command(Keys, ProfileOptions, RegionOptions)

Spec == Init /\ [][Next]_vars

\* A project with no settings file and any ignore file without the entry.
InitFreshIgnore ==
    /\ config \in InitConfigs
    /\ settings = AbsentFile
    /\ claudeDir = FALSE
    /\ gitignore \in {g \in InitIgnores : ~Includes(g.content, Entry)}
    /\ last = NoCommand
    /\ prev = NoCommand
    /\ procs = NoProcs

\* The commands with one key and the default options: the ignore file does
\* not depend on them.
NextIgnore == Command({"", "abc123"}, {Undefined}, {Undefined})

SpecFreshIgnore == InitFreshIgnore /\ [][NextIgnore]_vars

\* A project with no settings file, a stored key and any ignore file.
InitIgnore ==
    /\ config = StoreKey(NoConfig, "abc123")
    /\ settings = AbsentFile
    /\ claudeDir = FALSE
    /\ gitignore \in InitIgnores
    /\ last = NoCommand
    /\ prev = NoCommand
    /\ procs = NoProcs

\* The commands with the stored key and the default options.
NextAppend == Command({"abc123"}, {Undefined}, {Undefined})

SpecIgnore == InitIgnore /\ [][NextAppend]_vars

---------------------------------------------------------------------------
(* Two commands at once: two processes, one step per await *)

Pids == {1, 2}

\* The commands two processes run at once; bedrock-on with its defaults.
RaceCmds == {"glm-on", "glm-off", "bedrock-on", "bedrock-off"}

IsOn(cmd) == cmd \in {"glm-on", "bedrock-on"}

\* A process about to run cmd: nothing loaded, nothing read.
Starting(cmd) ==
    [cmd |-> cmd, pc |-> "start", outcome |-> "none", loaded |-> EmptyObject, text |-> <<>>]

\* Process p moves to pc, and to what else is given.
Goes(p, pc, outcome, loaded, text) ==
    [procs EXCEPT !.of[p] = [cmd |-> procs.of[p].cmd, pc |-> pc, outcome |-> outcome,
                              loaded |-> loaded, text |-> text]]

\* What process p makes of the object it loaded.
Computed(p) ==
    LET me == procs.of[p]
    IN  IF me.cmd = "glm-on" THEN JsonFile(GlmActivate(me.loaded, config.glmApiKey[1]))
        ELSE IF me.cmd = "bedrock-on" THEN JsonFile(BedrockActivate(me.loaded, NoArgs))
        ELSE IF me.cmd = "glm-off" THEN PersistOrRemove(GlmDeactivate(me.loaded))
        ELSE PersistOrRemove(BedrockDeactivate(me.loaded))

\* Persisting gone wrong: the command is applied to the file as it is when
\* the process writes, not to the object the process loaded.
ComputedFromFile(p) ==
    LET me == procs.of[p]
        now == LoadLenient(settings)
    IN  IF me.cmd = "glm-on" THEN JsonFile(GlmActivate(now, config.glmApiKey[1]))
        ELSE IF me.cmd = "bedrock-on" THEN JsonFile(BedrockActivate(now, NoArgs))
        ELSE IF me.cmd = "glm-off" THEN PersistOrRemove(GlmDeactivate(now))
        ELSE PersistOrRemove(BedrockDeactivate(now))

\* What process p writes to the settings file.
Persisted(p) == Computed(p)

\* Up to await fs.pathExists(settingsFile): glm-on gets the key and exits
\* without one, the activations make .claude, the deactivations end when
\* there is no settings file.
RaceStart(p) ==
    LET me == procs.of[p]
    IN  /\ me.pc = "start"
        /\ IF me.cmd = "glm-on" /\ Falsy(EnsureConfig(config).glmApiKey)
           THEN /\ procs' = Goes(p, "done", "exit1", me.loaded, me.text)
                /\ UNCHANGED claudeDir
           ELSE IF IsOn(me.cmd)
           THEN /\ claudeDir' = TRUE
                /\ procs' = Goes(p, IF settings.exists THEN "read" ELSE "write",
                                 "none", EmptyObject, me.text)
           ELSE /\ procs' = IF settings.exists
                            THEN Goes(p, "read", "none", me.loaded, me.text)
                            ELSE Goes(p, "done", "nothing", me.loaded, me.text)
                /\ UNCHANGED claudeDir
        /\ config' = IF me.cmd = "glm-on" THEN EnsureConfig(config) ELSE config
        /\ UNCHANGED <<settings, gitignore, last, prev>>

\* await fs.readJson(settingsFile): the activations catch what it throws,
\* the deactivations end in an error.
RaceRead(p) ==
    LET me == procs.of[p]
    IN  /\ me.pc = "read"
        /\ procs' = IF IsOn(me.cmd) \/ (settings.exists /\ settings.valid)
                    THEN Goes(p, "write", "none", LoadLenient(settings), me.text)
                    ELSE Goes(p, "done", "error", me.loaded, me.text)
        /\ UNCHANGED <<config, claudeDir, settings, gitignore, last, prev>>

\* await fs.writeJson(settingsFile, ...) or await fs.remove(settingsFile)
RacePersist(p) ==
    LET me == procs.of[p]
        then == IF IsOn(me.cmd)
                THEN Goes(p, "gitExists", "none", me.loaded, me.text)
                ELSE Goes(p, "done", "ok", me.loaded, me.text)
    IN  /\ me.pc = "write"
        /\ settings' = Persisted(p)
        /\ procs' = [then EXCEPT !.writer = p]
        /\ UNCHANGED <<config, claudeDir, gitignore, last, prev>>

\* await fs.pathExists(gitignoreFile)
RaceIgnoreExists(p) ==
    LET me == procs.of[p]
    IN  /\ me.pc = "gitExists"
        /\ procs' = Goes(p, IF gitignore.exists THEN "gitRead" ELSE "gitAppend",
                         "none", me.loaded, <<>>)
        /\ UNCHANGED <<config, claudeDir, settings, gitignore, last, prev>>

\* await fs.readFile(gitignoreFile, 'utf8')
RaceIgnoreRead(p) ==
    LET me == procs.of[p]
    IN  /\ me.pc = "gitRead"
        /\ procs' = Goes(p, "gitAppend", "none", me.loaded, gitignore.content)
        /\ UNCHANGED <<config, claudeDir, settings, gitignore, last, prev>>

\* The test on the text that was read, and await fs.appendFile(gitignoreFile, ...)
RaceIgnoreAppend(p) ==
    LET me == procs.of[p]
        separator ==
            IF Len(me.text) > 0 /\ ~EndsWithNewline(me.text) THEN Newline ELSE <<>>
    IN  /\ me.pc = "gitAppend"
        /\ gitignore' =
            IF ~Includes(me.text, Entry)
            THEN [exists |-> TRUE, content |-> gitignore.content \o separator \o Entry \o Newline]
            ELSE gitignore
        /\ procs' = Goes(p, "done", "ok", me.loaded, me.text)
        /\ UNCHANGED <<config, claudeDir, settings, last, prev>>

NextRace ==
    \E p \in Pids :
        \/ RaceStart(p)
        \/ RaceRead(p)
        \/ RacePersist(p)
        \/ RaceIgnoreExists(p)
        \/ RaceIgnoreRead(p)
        \/ RaceIgnoreAppend(p)

\* Two processes about to run any two commands, in a project whose ignore
\* file does not hold the entry.
InitRace ==
    /\ config \in InitConfigs
    /\ settings \in InitSettings
    /\ claudeDir \in {b \in BOOLEAN : settings.exists => b}
    /\ gitignore \in {NoIgnoreFile, [exists |-> TRUE, content |-> <<"x">>]}
    /\ last = NoCommand
    /\ prev = NoCommand
    /\ procs \in {[of |-> [p \in Pids |-> Starting(c[p])], writer |-> 0] : c \in [Pids -> RaceCmds]}

SpecRace == InitRace /\ [][NextRace]_vars

---------------------------------------------------------------------------
(* The claims *)

Profiles == {"glm", "bedrock"}

OnCmd(P) == IF P = "glm" THEN "glm-on" ELSE "bedrock-on"

OffCmd(P) == IF P = "glm" THEN "glm-off" ELSE "bedrock-off"

\* The env keys and the top-level fields the activation of P writes.
WrittenEnv(P) ==
    IF P = "glm" THEN DOMAIN GlmNewSettings("") ELSE DOMAIN BedrockNewSettings(NoArgs)

WrittenTop(P) == IF P = "glm" THEN {} ELSE {"model"}

\* The file is absent, or holds an object with none of P's fields.
FreeOf(P, file) ==
    \/ ~file.exists
    \/ /\ file.valid
       /\ DOMAIN file.obj.env \cap WrittenEnv(P) = {}
       /\ DOMAIN file.obj.top \cap WrittenTop(P) = {}

\* The file holds nothing an activation followed by a deactivation would
\* clear away: no empty object, no empty env.
NothingEmpty(file) ==
    file.exists =>
        /\ ~IsEmptyObject(file.obj)
        /\ file.obj.hasEnv => DOMAIN file.obj.env # {}

\* prev was a successful activation of P and last its deactivation.
OnThenOff(P) ==
    /\ prev.cmd = OnCmd(P) /\ prev.outcome = "ok"
    /\ last.cmd = OffCmd(P)

\* C1, as stated: activating P and then deactivating P, from a settings
\* file that is absent or holds any object without P's fields, leaves the
\* settings file as it was before the activation.
C1_RoundTripAnyObject ==
    \A P \in Profiles :
        (OnThenOff(P) /\ FreeOf(P, prev.before)) => settings = prev.before

\* C1, amended: activating P and then deactivating P leaves the settings
\* file as it was before the activation, from a settings file that is absent
\* or holds an object without P's fields that is not empty and whose env, if
\* present, is not empty.
C1_RoundTrip ==
    \A P \in Profiles :
        (OnThenOff(P) /\ FreeOf(P, prev.before) /\ NothingEmpty(prev.before))
            => settings = prev.before

C1_Witness ==
    /\ OnThenOff("bedrock") /\ last.outcome = "ok"
    /\ FreeOf("bedrock", prev.before) /\ NothingEmpty(prev.before)
    /\ prev.before.exists
    /\ "bar" \in DOMAIN prev.before.obj.env
    /\ "foo" \in DOMAIN prev.before.obj.top
    /\ settings = prev.before

\* C2: running the same activation twice in a row, with the same options
\* and the same stored key, leaves the settings file the first run left.
C2_ActivateTwice ==
    \A P \in Profiles :
        (prev.cmd = OnCmd(P) /\ last.cmd = OnCmd(P) /\ prev.args = last.args)
            => settings = last.before

C2_Witness ==
    /\ prev.cmd = "glm-on" /\ prev.outcome = "ok"
    /\ last.cmd = "glm-on" /\ last.outcome = "ok"
    /\ prev.before.exists /\ prev.before # settings
    /\ settings = last.before

\* C3: after a successful activation or deactivation the settings file, if
\* it exists, is not the empty object and has no empty env.
C3_NothingEmptyLeft ==
    (/\ last.cmd \in {"glm-on", "glm-off", "bedrock-on", "bedrock-off"}
     /\ last.outcome = "ok")
        => (settings.exists => settings.valid) /\ NothingEmpty(settings)

C3_Witness ==
    /\ last.cmd = "glm-off" /\ last.outcome = "ok"
    /\ DOMAIN last.before.obj.env # {}
    /\ DOMAIN last.before.obj.env \subseteq WrittenEnv("glm")
    /\ settings.exists /\ ~settings.obj.hasEnv

\* What is left of an object once P's fields are taken out of it, an env
\* left empty included.
Remaining(P, obj) ==
    LET e == [k \in DOMAIN obj.env \ WrittenEnv(P) |-> obj.env[k]]
        t == [k \in DOMAIN obj.top \ WrittenTop(P) |-> obj.top[k]]
    IN  [top |-> t, hasEnv |-> obj.hasEnv /\ DOMAIN e # {}, env |-> e]

\* C4: a deactivation of P removes the settings file exactly when nothing
\* remains of the object without P's fields and without an emptied env;
\* otherwise the file holds exactly what remains.
C4_DeleteIffNothingRemains ==
    \A P \in Profiles :
        (last.cmd = OffCmd(P) /\ last.outcome = "ok") =>
            LET rem == Remaining(P, last.before.obj)
            IN  IF DOMAIN rem.top = {} /\ ~rem.hasEnv
                THEN ~settings.exists
                ELSE settings = [exists |-> TRUE, valid |-> TRUE, obj |-> rem]

C4_Witness ==
    /\ OnThenOff("glm") /\ last.outcome = "ok"
    /\ settings.exists
    /\ DOMAIN settings.obj.top = {}
    /\ DOMAIN settings.obj.env = {"bar"}

\* C5: a deactivation that finds no settings file creates none, changes no
\* other file and reports no error.
C5_DeactivateAbsent ==
    [][(last'.cmd \in {"glm-off", "bedrock-off"} /\ ~settings.exists) =>
        /\ ~settings'.exists
        /\ UNCHANGED <<config, claudeDir, gitignore>>
        /\ last'.outcome = "nothing"]_vars

C5_Witness ==
    /\ last.cmd = "bedrock-off" /\ last.outcome = "nothing"
    /\ ~last.before.exists
    /\ ~settings.exists /\ ~claudeDir /\ ~gitignore.exists /\ ~config.exists

\* The number of times the entry occurs in the ignore file.
EntryCount == Cardinality(Positions(gitignore.content, Entry))

ActivationDone == last.cmd \in {"glm-on", "bedrock-on"} /\ last.outcome = "ok"

\* C6: from an ignore file without the entry, the ignore file holds the
\* entry exactly once after every successful activation, and no command
\* removes an occurrence or adds a second one.
C6_EntryOnce ==
    /\ [](ActivationDone => EntryCount = 1)
    /\ [][EntryCount' >= EntryCount /\ EntryCount' <= 1]_vars

C6_Witness ==
    /\ prev.cmd = "glm-on" /\ prev.outcome = "ok"
    /\ last.cmd = "bedrock-on"
    /\ EntryCount = 1
    /\ gitignore.content = SubSeq(Entry, 1, 8) \o Newline \o Entry \o Newline

\* C7: glm-on with no stored key exits with status 1 and leaves the
\* settings file, present or not, as it was.
C7_NoKeyNoWrite ==
    [][(last'.cmd = "glm-on" /\ config.glmApiKey = Undefined) =>
        /\ last'.outcome = "exit1"
        /\ settings' = settings]_vars

C7_Witness ==
    /\ last.cmd = "glm-on" /\ last.outcome = "exit1"
    /\ config.glmApiKey = Undefined
    /\ settings.exists /\ settings.valid
    /\ settings = last.before

\* The stored key is the argument of the latest set-glm-key, and no other
\* command changes it.
KeyIsLatestStored ==
    [][IF last'.cmd = "set-glm-key"
       THEN config'.glmApiKey = last'.args.key
       ELSE config'.glmApiKey = config.glmApiKey]_vars

\* The glm-on that ran last succeeded and wrote the stored key as
\* env.ANTHROPIC_AUTH_TOKEN.
WroteStoredKey ==
    /\ last.outcome = "ok"
    /\ settings.obj.env["ANTHROPIC_AUTH_TOKEN"] = config.glmApiKey[1]

\* C8, as stated: every glm-on that runs once a key is stored succeeds and
\* writes the latest stored key as env.ANTHROPIC_AUTH_TOKEN, for every key
\* string; set-glm-key overwrites the stored key and no other command
\* changes it.
C8_AnyStoredKey ==
    /\ []((last.cmd = "glm-on" /\ config.glmApiKey # Undefined) => WroteStoredKey)
    /\ KeyIsLatestStored

\* C8, amended: every glm-on that runs once a key other than the empty
\* string is stored succeeds and writes the latest stored key as
\* env.ANTHROPIC_AUTH_TOKEN; set-glm-key overwrites the stored key and no
\* other command changes it.
C8_StoredKeyUsed ==
    /\ []((/\ last.cmd = "glm-on"
           /\ config.glmApiKey # Undefined
           /\ config.glmApiKey # Some("")) => WroteStoredKey)
    /\ KeyIsLatestStored

C8_Witness ==
    /\ last.cmd = "glm-on" /\ last.outcome = "ok"
    /\ prev.cmd = "set-glm-key" /\ prev.args.key = Some("zzz999")
    /\ prev.before.obj.hasEnv
    /\ "ANTHROPIC_AUTH_TOKEN" \in DOMAIN prev.before.obj.env
    /\ prev.before.obj.env["ANTHROPIC_AUTH_TOKEN"] = "abc123"
    /\ settings.obj.env["ANTHROPIC_AUTH_TOKEN"] = "zzz999"

\* The values the activation that ran last gives P's env keys.
WrittenValues(P) ==
    IF P = "glm" THEN GlmNewSettings(config.glmApiKey[1]) ELSE BedrockNewSettings(last.args)

\* C9: a successful activation of P on a settings file that holds an object
\* leaves every top-level field other than env and P's own, and every env
\* key other than P's own, as it was, adds none, and gives every field of P
\* the profile's value whatever it held.
C9_ActivateFrame ==
    \A P \in Profiles :
        (/\ last.cmd = OnCmd(P) /\ last.outcome = "ok"
         /\ last.before.exists /\ last.before.valid) =>
            LET b == last.before.obj
                a == settings.obj
            IN  /\ settings.exists /\ settings.valid /\ a.hasEnv
                /\ DOMAIN a.top = DOMAIN b.top \cup WrittenTop(P)
                /\ \A k \in DOMAIN b.top \ WrittenTop(P) : a.top[k] = b.top[k]
                /\ \A k \in WrittenTop(P) : a.top[k] = BedrockModel
                /\ DOMAIN a.env = DOMAIN b.env \cup WrittenEnv(P)
                /\ \A k \in DOMAIN b.env \ WrittenEnv(P) : a.env[k] = b.env[k]
                /\ \A k \in WrittenEnv(P) : a.env[k] = WrittenValues(P)[k]

C9_Witness ==
    /\ last.cmd = "bedrock-on" /\ last.outcome = "ok"
    /\ last.args.profile = Some("dev")
    /\ last.before.exists /\ last.before.valid
    /\ DOMAIN last.before.obj.top = {"foo", "model"}
    /\ DOMAIN last.before.obj.env = {"bar", "AWS_PROFILE"}
    /\ last.before.obj.env["AWS_PROFILE"] = "baz"
    /\ settings.obj.env["AWS_PROFILE"] = "dev"
    /\ settings.obj.env["bar"] = "baz"

\* C10: a deactivation of P on a settings file that holds an object
\* succeeds whether or not P's fields are there, leaves none of the fields
\* the activation of P writes, and leaves every other env key and every
\* other top-level field with the value it had.
C10_DeactivateFrame ==
    \A P \in Profiles :
        (last.cmd = OffCmd(P) /\ last.before.exists /\ last.before.valid) =>
            LET b == last.before.obj
                a == settings.obj
            IN  /\ last.outcome = "ok"
                /\ DOMAIN a.env = DOMAIN b.env \ WrittenEnv(P)
                /\ \A k \in DOMAIN a.env : a.env[k] = b.env[k]
                /\ DOMAIN a.top = DOMAIN b.top \ WrittenTop(P)
                /\ \A k \in DOMAIN a.top : a.top[k] = b.top[k]

C10_Witness ==
    /\ last.cmd = "bedrock-off" /\ last.outcome = "ok"
    /\ prev.cmd = "none"
    /\ DOMAIN last.before.obj.top = {"foo", "model"}
    /\ DOMAIN last.before.obj.env = {"bar", "AWS_PROFILE"}
    /\ settings.exists
    /\ DOMAIN settings.obj.top = {"foo"}
    /\ DOMAIN settings.obj.env = {"bar"}

\* The env keys only one of the two profiles writes.
OnlyEnv(P) == WrittenEnv(P) \ WrittenEnv(IF P = "glm" THEN "bedrock" ELSE "glm")

\* C11: the settings file never holds fields of the GLM profile together
\* with fields of the Bedrock profile.
C11_OneProfileActive ==
    ~(/\ settings.exists
      /\ DOMAIN settings.obj.env \cap OnlyEnv("glm") # {}
      /\ \/ DOMAIN settings.obj.env \cap OnlyEnv("bedrock") # {}
         \/ "model" \in DOMAIN settings.obj.top)

\* C12: a deactivation on a settings file that is not valid JSON ends in
\* an error and leaves the settings file and the ignore file as they were.
C12_DeactivateMalformed ==
    [][(last'.cmd \in {"glm-off", "bedrock-off"} /\ settings = MalformedFile) =>
        /\ last'.outcome = "error"
        /\ settings' = settings
        /\ gitignore' = gitignore]_vars

C12_Witness ==
    /\ last.cmd = "glm-off" /\ last.outcome = "error"
    /\ last.before = MalformedFile
    /\ settings = MalformedFile

\* The object an activation of P writes when it starts from nothing.
OnlyProfile(P) ==
    [top |-> [k \in WrittenTop(P) |-> BedrockModel],
     hasEnv |-> TRUE,
     env |-> [k \in WrittenEnv(P) |->
                IF P = "glm" THEN GlmNewSettings(config.glmApiKey[1])[k]
                ELSE BedrockNewSettings(last.args)[k]]]

\* C13: an activation on a settings file that is not valid JSON does not
\* end in an error and does what it does when the file is absent: the file
\* then holds the fields of the profile and nothing else (a glm-on without
\* a stored key exits and leaves the file alone).
C13_ActivateMalformed ==
    \A P \in Profiles :
        (last.cmd = OnCmd(P) /\ last.before = MalformedFile) =>
            /\ last.outcome = (IF P = "glm" /\ Falsy(config.glmApiKey) THEN "exit1" ELSE "ok")
            /\ IF last.outcome = "ok"
               THEN settings = [exists |-> TRUE, valid |-> TRUE, obj |-> OnlyProfile(P)]
               ELSE settings = MalformedFile

C13_Witness ==
    /\ last.cmd = "bedrock-on" /\ last.outcome = "ok"
    /\ last.before = MalformedFile
    /\ settings.valid
    /\ DOMAIN settings.obj.top = {"model"}
    /\ DOMAIN settings.obj.env = WrittenEnv("bedrock")

\* C15: the second of two deactivations of P in a row, the first of which
\* did not end in an error, leaves the settings file the first one left and
\* does not end in an error.
C15_DeactivateTwice ==
    \A P \in Profiles :
        (prev.cmd = OffCmd(P) /\ prev.outcome # "error" /\ last.cmd = OffCmd(P)) =>
            /\ settings = last.before
            /\ last.outcome # "error"

C15_Witness ==
    /\ prev.cmd = "glm-off" /\ prev.outcome = "ok"
    /\ "IS_DEMO" \in DOMAIN prev.before.obj.env
    /\ last.cmd = "glm-off" /\ last.outcome = "ok"
    /\ settings.exists
    /\ settings = last.before

\* C16: a bedrock-off on a settings file that holds an object succeeds and
\* leaves no model field, whatever model held and with or without env.
C16_ModelRemoved ==
    (last.cmd = "bedrock-off" /\ last.before.exists /\ last.before.valid) =>
        /\ last.outcome = "ok"
        /\ "model" \notin DOMAIN settings.obj.top

C16_Witness ==
    /\ last.cmd = "bedrock-off" /\ last.outcome = "ok"
    /\ ~last.before.obj.hasEnv
    /\ DOMAIN last.before.obj.top = {"foo", "model"}
    /\ last.before.obj.top["model"] = "claude-sonnet"
    /\ settings.exists
    /\ DOMAIN settings.obj.top = {"foo"}

\* The value an option of bedrock-on gives its env key when every supplied
\* string is taken as it is.
AsSupplied(option, default) == IF option = Undefined THEN default ELSE option[1]

\* The value an option of bedrock-on gives its env key when the empty
\* string counts as not supplied.
AsSuppliedNonEmpty(option, default) ==
    IF option = Undefined \/ option = Some("") THEN default ELSE option[1]

\* C17, as stated: after bedrock-on env.AWS_PROFILE and env.AWS_REGION are
\* the supplied options, for every supplied string, and the defaults only
\* when none is supplied; model is the fixed literal.
C17_OptionsAsSupplied ==
    (last.cmd = "bedrock-on" /\ last.outcome = "ok") =>
        /\ settings.obj.env["AWS_PROFILE"] = AsSupplied(last.args.profile, "sjmbrprofile")
        /\ settings.obj.env["AWS_REGION"] = AsSupplied(last.args.region, "eu-west-1")
        /\ settings.obj.top["model"] = "eu.anthropic.claude-opus-4-5-20251101-v1:0"

\* C17, amended: after bedrock-on env.AWS_PROFILE and env.AWS_REGION are
\* the supplied options, for every supplied string other than the empty
\* one, and the defaults when none or the empty string is supplied; model
\* is the fixed literal.
C17_OptionsOrDefaults ==
    (last.cmd = "bedrock-on" /\ last.outcome = "ok") =>
        /\ settings.obj.env["AWS_PROFILE"] = AsSuppliedNonEmpty(last.args.profile, "sjmbrprofile")
        /\ settings.obj.env["AWS_REGION"] = AsSuppliedNonEmpty(last.args.region, "eu-west-1")
        /\ settings.obj.top["model"] = "eu.anthropic.claude-opus-4-5-20251101-v1:0"

C17_Witness ==
    /\ last.cmd = "bedrock-on" /\ last.outcome = "ok"
    /\ last.args.profile = Some("dev") /\ last.args.region = Undefined
    /\ settings.obj.env["AWS_PROFILE"] = "dev"
    /\ settings.obj.env["AWS_REGION"] = "eu-west-1"

\* The text of the ignore file, empty when there is none.
TextOf(g) == IF g.exists THEN g.content ELSE <<>>

\* The entry is somewhere in the text.
HasEntry(t) == \E i \in 1..Len(t) : i + 20 <= Len(t) /\ \A j \in 1..21 : t[i + j - 1] = Entry[j]

\* C18: a successful activation leaves an ignore file that holds the entry
\* anywhere as it is; otherwise the new text is the old text, a newline
\* exactly when the old text is not empty and does not end with one, the
\* entry and a newline.
C18_AppendOnly ==
    [][(last'.cmd \in {"glm-on", "bedrock-on"} /\ last'.outcome = "ok") =>
        LET old == TextOf(gitignore)
        IN  IF HasEntry(old)
            THEN gitignore' = gitignore
            ELSE /\ gitignore'.exists
                 /\ gitignore'.content =
                        old \o (IF old # <<>> /\ old[Len(old)] # "\n" THEN <<"\n">> ELSE <<>>)
                            \o Entry \o <<"\n">>]_vars

C18_Witness ==
    /\ last.cmd = "bedrock-on" /\ last.outcome = "ok"
    /\ gitignore.content = <<"x">> \o Entry \o <<"x">>

\* C19: once both profiles are activated, a successful deactivation of one
\* leaves every field the activation of the other wrote in place with its
\* value.
C19_OtherProfileIntact ==
    \A P \in Profiles :
        LET Q == IF P = "glm" THEN "bedrock" ELSE "glm"
            b == last.before.obj
        IN  (/\ last.cmd = OffCmd(P) /\ last.outcome = "ok"
             /\ prev.cmd \in {"glm-on", "bedrock-on"} /\ prev.outcome = "ok"
             /\ WrittenEnv(P) \cup WrittenEnv(Q) \subseteq DOMAIN b.env
             /\ "model" \in DOMAIN b.top) =>
                /\ \A k \in WrittenEnv(Q) :
                        k \in DOMAIN settings.obj.env /\ settings.obj.env[k] = b.env[k]
                /\ \A k \in WrittenTop(Q) :
                        k \in DOMAIN settings.obj.top /\ settings.obj.top[k] = b.top[k]

\* Both processes have ended.
AllDone == \A p \in Pids : procs.of[p].pc = "done"

\* C14: when two processes have each run one activation or deactivation at
\* once, the settings file is what the process that persisted last made of
\* the object it loaded, and that process ended without an error.
C14_LastWriterWins ==
    (AllDone /\ procs.writer # 0) =>
        /\ settings = Computed(procs.writer)
        /\ procs.of[procs.writer].outcome = "ok"

\* glm-on and bedrock-on both loaded the empty project, both persisted and
\* ended well, and what glm-on wrote is gone.
C14_Witness ==
    /\ AllDone
    /\ procs.of[1].cmd = "glm-on" /\ procs.of[1].outcome = "ok"
    /\ procs.of[2].cmd = "bedrock-on" /\ procs.of[2].outcome = "ok"
    /\ procs.of[1].loaded = EmptyObject /\ procs.of[2].loaded = EmptyObject
    /\ procs.writer = 2
    /\ DOMAIN settings.obj.env = WrittenEnv("bedrock")

\* C20: when two activations have run at once, from an ignore file without
\* the entry, the ignore file holds the entry at most once.
C20_RaceEntryOnce ==
    (/\ AllDone
     /\ \A p \in Pids : IsOn(procs.of[p].cmd)) => EntryCount <= 1

============================================================================
